---- MODULE Spec2Model ----
(***************************************************************************)
(* Model of the chapter assistant of server/routes.py: the module-level    *)
(* cache gemini_sessions, get_or_create_gemini_session with its readiness  *)
(* polling (wait_for_files_active), and the ask_chapter_assistant handler, *)
(* run by concurrently served requests (Flask serves each request on its   *)
(* own thread; the code takes no lock).                                    *)
(***************************************************************************)
EXTENDS Integers, Sequences, FiniteSets, TLC

\* Number of requests served in one run; request r is the r-th the server receives.
NumReq == 2

Requests == 1..NumReq

\* routes.py:359, the configured valid set
ValidChapters == {1, 2, 3, 4}

\* Chapter ids the requests carry: two valid ones and one outside the valid set.
ChapterInputs == {1, 2, 5}

\* Which content/chapter{N}.txt files exist on disk: chapter 2 has none.
ContentStores == {{1}, {1, 5}}

\* file.state.name values of an uploaded asset
AssetStates == {"STATE_UNSPECIFIED", "PROCESSING", "ACTIVE", "FAILED"}

None == 0

----------------------------------------------------------------------------
(* Text: a string is a sequence of one-character strings.                  *)

Whitespace == {" ", "\n", "\t"}

LowerToUpper ==
    [c \in {"n", "o", "t", "i", "s", "c", "p", "e", "k"} |->
        CASE c = "n" -> "N" [] c = "o" -> "O" [] c = "t" -> "T"
          [] c = "i" -> "I" [] c = "s" -> "S" [] c = "c" -> "C"
          [] c = "p" -> "P" [] c = "e" -> "E" [] c = "k" -> "K"]

\* str.upper()
upper(s) ==
    [i \in 1..Len(s) |-> IF s[i] \in DOMAIN LowerToUpper THEN LowerToUpper[s[i]] ELSE s[i]]

RECURSIVE lstrip(_)
lstrip(s) ==
    IF s # <<>> /\ Head(s) \in Whitespace THEN lstrip(Tail(s)) ELSE s

RECURSIVE rstrip(_)
rstrip(s) ==
    IF s # <<>> /\ s[Len(s)] \in Whitespace THEN rstrip(SubSeq(s, 1, Len(s) - 1)) ELSE s

\* str.strip()
strip(s) == rstrip(lstrip(s))

\* routes.py:89 and 331, the sentinel "NOT_IN_SCOPE"
NOT_IN_SCOPE == <<"N", "O", "T", "_", "I", "N", "_", "S", "C", "O", "P", "E">>

\* routes.py:332, "I can only answer questions based on the content of this chapter."
ScopeRefusal == <<"I can only answer questions based on the content of this chapter.">>

\* routes.py:320
ContextFailureText ==
    <<"Sorry, I couldn't prepare the context for this chapter. Please try again later.">>

\* routes.py:340
SendFailureText ==
    <<"Sorry, I encountered an error while trying to answer your question.">>

\* routes.py:309
MissingQueryText == <<"Missing query">>

\* Replies the provider may give (response.text).
ProviderReplies ==
    { NOT_IN_SCOPE,
      <<" ", "n", "o", "t", "_", "i", "n", "_", "s", "c", "o", "p", "e", "\n">>,
      <<"\t", "N", "o", "t", "_", "I", "n", "_", "S", "c", "o", "p", "e">>,
      <<"N", "O", "T", "_", "I", "N", "_", "S", "C", "O", "P", "E", ".">>,
      <<"N", "O", "T", " ", "I", "N", " ", "S", "C", "O", "P", "E">>,
      <<" ", "o", "k", " ">> }

\* routes.py:331-332 without the strip(): a plausible slip
NormalizeReplyNoStrip(reply_text) ==
    IF upper(reply_text) = NOT_IN_SCOPE THEN ScopeRefusal ELSE reply_text

\* routes.py:331-332
NormalizeReply(reply_text) ==
    IF upper(strip(reply_text)) = NOT_IN_SCOPE THEN ScopeRefusal ELSE reply_text

----------------------------------------------------------------------------
(* The encoding classifier                                                 *)

UpperCase == <<"A", "B", "C", "D", "E", "F", "G", "H", "I", "J", "K", "L", "M", "N", "O", "P", "Q", "R", "S", "T", "U", "V", "W", "X", "Y", "Z">>

LowerCase == <<"a", "b", "c", "d", "e", "f", "g", "h", "i", "j", "k", "l", "m", "n", "o", "p", "q", "r", "s", "t", "u", "v", "w", "x", "y", "z">>

\* str.lower()
lower(s) ==
    [i \in 1..Len(s) |->
        IF \E k \in 1..Len(UpperCase) : UpperCase[k] = s[i]
           THEN LowerCase[CHOOSE k \in 1..Len(UpperCase) : UpperCase[k] = s[i]]
           ELSE s[i]]

\* t in s
Contains(s, t) == \E i \in 0..(Len(s) - Len(t)) : SubSeq(s, i + 1, i + Len(t)) = t

\* s.endswith(t)
EndsWith(s, t) == Len(s) >= Len(t) /\ SubSeq(s, Len(s) - Len(t) + 1, Len(s)) = t

\* None where a string is expected (a text is a sequence of one-character strings)
NoneStr == <<"None">>

\* Python truth of an optional string: None and "" are false
Truthy(x) == x # NoneStr /\ x # << >>

\* speech.RecognitionConfig.AudioEncoding, the values the classifier returns
EncodingTags == {"WEBM_OPUS", "OGG_OPUS", "LINEAR16", "MP3", "FLAC", "ENCODING_UNSPECIFIED"}

T_webm == <<"w", "e", "b", "m">>
T_ogg == <<"o", "g", "g">>
T_opus == <<"o", "p", "u", "s">>
T_vorbis == <<"v", "o", "r", "b", "i", "s">>
T_wav == <<"w", "a", "v">>
T_mp3 == <<"m", "p", "3">>
T_flac == <<"f", "l", "a", "c">>
X_webm == <<".", "w", "e", "b", "m">>
X_ogg == <<".", "o", "g", "g">>
X_opus == <<".", "o", "p", "u", "s">>
X_wav == <<".", "w", "a", "v">>
X_mp3 == <<".", "m", "p", "3">>
X_flac == <<".", "f", "l", "a", "c">>

\* routes.py:30-41, the mimetype branch
MimetypeEncoding(mimetype) ==
    IF ~Truthy(mimetype) THEN "ENCODING_UNSPECIFIED"
    ELSE LET mimetype_lower == lower(mimetype) IN
        IF Contains(mimetype_lower, T_webm)
              /\ (Contains(mimetype_lower, T_opus) \/ Contains(mimetype_lower, T_vorbis))
           THEN "WEBM_OPUS"
        ELSE IF Contains(mimetype_lower, T_ogg)
              /\ (Contains(mimetype_lower, T_opus) \/ Contains(mimetype_lower, T_vorbis))
           THEN "OGG_OPUS"
        ELSE IF Contains(mimetype_lower, T_wav) THEN "LINEAR16"
        ELSE IF Contains(mimetype_lower, T_mp3) THEN "MP3"
        ELSE IF Contains(mimetype_lower, T_flac) THEN "FLAC"
        ELSE "ENCODING_UNSPECIFIED"

\* routes.py:47-57, the filename branch
FilenameEncoding(filename) ==
    LET filename_lower == lower(filename) IN
        IF EndsWith(filename_lower, X_webm) THEN "WEBM_OPUS"
        ELSE IF EndsWith(filename_lower, X_ogg) \/ EndsWith(filename_lower, X_opus)
           THEN "OGG_OPUS"
        ELSE IF EndsWith(filename_lower, X_wav) THEN "LINEAR16"
        ELSE IF EndsWith(filename_lower, X_mp3) THEN "MP3"
        ELSE IF EndsWith(filename_lower, X_flac) THEN "FLAC"
        ELSE "ENCODING_UNSPECIFIED"

\* The two branches in the other order, the filename deciding first: a plausible slip
get_stt_encoding_filename_first(mimetype, filename) ==
    LET encoding == IF Truthy(filename) THEN FilenameEncoding(filename)
                    ELSE "ENCODING_UNSPECIFIED" IN
        IF encoding = "ENCODING_UNSPECIFIED" THEN MimetypeEncoding(mimetype) ELSE encoding

\* routes.py:26-63
get_stt_encoding(mimetype, filename) ==
    LET encoding == MimetypeEncoding(mimetype) IN
        IF encoding = "ENCODING_UNSPECIFIED" /\ Truthy(filename)
           THEN FilenameEncoding(filename)
           ELSE encoding

\* app.py:207-228, the classifier written out in the first generation's handle_chat
app_stt_encoding(mimetype, filename) ==
    LET by_mimetype ==
            IF ~Truthy(mimetype) THEN "ENCODING_UNSPECIFIED"
            ELSE IF Contains(mimetype, T_webm) /\ Contains(mimetype, T_opus) THEN "WEBM_OPUS"
            ELSE IF Contains(mimetype, T_ogg) /\ Contains(mimetype, T_opus) THEN "OGG_OPUS"
            ELSE IF Contains(mimetype, T_wav) THEN "LINEAR16"
            ELSE IF Contains(mimetype, T_mp3) THEN "MP3"
            ELSE "ENCODING_UNSPECIFIED"
    IN  IF by_mimetype = "ENCODING_UNSPECIFIED" /\ Truthy(filename)
           THEN IF EndsWith(lower(filename), X_webm) THEN "WEBM_OPUS"
                ELSE IF EndsWith(lower(filename), X_ogg) THEN "OGG_OPUS"
                ELSE IF EndsWith(lower(filename), X_wav) THEN "LINEAR16"
                ELSE IF EndsWith(lower(filename), X_mp3) THEN "MP3"
                ELSE "ENCODING_UNSPECIFIED"
           ELSE by_mimetype

M_webm_opus == <<"a", "u", "d", "i", "o", "/", "w", "e", "b", "m", ";", "c", "o", "d", "e", "c", "s", "=", "o", "p", "u", "s">>
M_WEBM_OPUS == <<"A", "u", "d", "i", "o", "/", "W", "e", "b", "M", ";", "C", "o", "d", "e", "c", "s", "=", "O", "P", "U", "S">>
M_webm == <<"a", "u", "d", "i", "o", "/", "w", "e", "b", "m">>
M_ogg_vorbis == <<"a", "u", "d", "i", "o", "/", "o", "g", "g", ";", "c", "o", "d", "e", "c", "s", "=", "v", "o", "r", "b", "i", "s">>
M_wav == <<"a", "u", "d", "i", "o", "/", "x", "-", "w", "a", "v">>
M_mpeg == <<"a", "u", "d", "i", "o", "/", "m", "p", "e", "g">>
M_mp3 == <<"a", "u", "d", "i", "o", "/", "m", "p", "3">>
M_flac == <<"a", "u", "d", "i", "o", "/", "f", "l", "a", "c">>
M_octet == <<"a", "p", "p", "l", "i", "c", "a", "t", "i", "o", "n", "/", "o", "c", "t", "e", "t", "-", "s", "t", "r", "e", "a", "m">>

F_x_webm == <<"x", ".", "w", "e", "b", "m">>
F_a_flac == <<"a", ".", "f", "l", "a", "c">>
F_A_MP3 == <<"A", ".", "M", "P", "3">>
F_b_ogg == <<"b", ".", "o", "g", "g">>
F_c_opus == <<"c", ".", "o", "p", "u", "s">>
F_d_wav == <<"d", ".", "w", "a", "v">>
F_blob == <<"b", "l", "o", "b">>
F_webm_txt == <<"x", ".", "w", "e", "b", "m", ".", "t", "x", "t">>

\* audio_file.mimetype values tried
MimeTypes ==
    {NoneStr, << >>, M_webm_opus, M_WEBM_OPUS, M_webm, M_ogg_vorbis, M_wav, M_mpeg, M_mp3,
     M_flac, M_octet}

\* audio_file.filename values tried
FileNames ==
    {NoneStr, << >>, F_x_webm, F_a_flac, F_A_MP3, F_b_ogg, F_c_opus, F_d_wav, F_blob,
     F_webm_txt}

----------------------------------------------------------------------------
VARIABLES
    gemini_sessions,  \* routes.py:93: chapter_num -> chat session
    content,          \* the chapter ids whose content file exists
    pc,               \* where each request's thread stands
    chapter_num,      \* the request's URL parameter
    has_query,        \* whether the JSON body carries 'query'
    asset,            \* provider side: state of the file the request uploaded
    observed,         \* file.state.name as last read by the request's get_file
    chat_session,     \* the request's local chat_session (None or a session)
    calls,            \* provider calls the request has made
    history,          \* provider side: the turns each chat session holds
    status,           \* HTTP status of the response (None while unanswered)
    response_text,    \* provider's raw response.text for the request
    body,             \* text of the response body
    response_field    \* the key of response_data that carries the text

VARIABLES
    enc,              \* one call of get_stt_encoding: its arguments and its result
    clients,          \* clients.py: which start-up handles are initialised
    chat_history,     \* the turns held by the start-up chat session clients.chat_session
    api,              \* the requests to /api/greet, /api/speak and /api/chat
    rec               \* one call of recognize_speech: the provider's outcome and the result

assistantvars == <<gemini_sessions, content, pc, chapter_num, has_query, asset, observed,
                   chat_session, calls, history, status, response_text, body,
                   response_field>>

apivars == <<enc, clients, chat_history, api, rec>>

vars == <<assistantvars, apivars>>

\* A chat session is named by the request whose start_chat created it.
Sessions == Requests

\* No get_stt_encoding call made yet
EncUnset == [mimetype |-> NoneStr, filename |-> NoneStr, encoding |-> "unset"]

\* An /api request not received yet
ApiIdle == [endpoint |-> "none"]

\* recognize_speech has not been called
RecUnset == [state |-> "unset"]

\* The other endpoints at rest: all handles initialised, nothing received
ApiAtRest ==
    /\ enc = EncUnset
    /\ clients = [generation |-> "server", tts_client |-> TRUE, speech_client |-> TRUE,
                  chat_session |-> TRUE]
    /\ chat_history = << >>
    /\ api = [r \in Requests |-> ApiIdle]
    /\ rec = RecUnset

\* The chapter assistant before any request
AssistantAtRest ==
    /\ gemini_sessions = << >>
    /\ content \in ContentStores
    /\ pc = [r \in Requests |-> "idle"]
    /\ chapter_num = [r \in Requests |-> None]
    /\ has_query = [r \in Requests |-> FALSE]
    /\ asset = [r \in Requests |-> "NONE"]
    /\ observed = [r \in Requests |-> "NONE"]
    /\ chat_session = [r \in Requests |-> None]
    /\ calls = [r \in Requests |-> {}]
    /\ history = [s \in Sessions |-> << >>]
    /\ status = [r \in Requests |-> None]
    /\ response_text = [r \in Requests |-> << >>]
    /\ body = [r \in Requests |-> << >>]
    /\ response_field = [r \in Requests |-> ""]

Init ==
    /\ AssistantAtRest
    /\ ApiAtRest

----------------------------------------------------------------------------
(* Helpers of the handler                                                  *)

\* return jsonify(response_data), code
Respond(r, code, field, text) ==
    /\ pc' = [pc EXCEPT ![r] = "done"]
    /\ status' = [status EXCEPT ![r] = code]
    /\ body' = [body EXCEPT ![r] = text]
    /\ response_field' = [response_field EXCEPT ![r] = field]

\* A failed wait that accepts every state the polling loop leaves: a plausible slip
FileReadyAnyFinal(state_name) == state_name # "PROCESSING"

\* routes.py:105, the test after the polling loop
FileReady(state_name) == state_name = "ACTIVE"

\* An assignment that rebuilds the dict around the new entry: a plausible slip
StoreSessionEvicting(sessions, ch, s) == (ch :> s)

\* routes.py:152, gemini_sessions[chapter_num] = chat_session
StoreSession(sessions, ch, s) ==
    [c \in (DOMAIN sessions) \cup {ch} |-> IF c = ch THEN s ELSE sessions[c]]

\* A failure path that records the failure in the cache: a plausible slip
SessionsAfterFailureMarked(sessions, ch) == StoreSession(sessions, ch, None)

\* routes.py:128, 136, 161: return None leaves the cache as it is
SessionsAfterFailure(sessions, ch) == sessions

\* The 503 of routes.py:322 replaced by the 500 of routes.py:342: a plausible slip
BuildFailedAs500(r) ==
    /\ gemini_sessions' = SessionsAfterFailure(gemini_sessions, chapter_num[r])
    /\ chat_session' = [chat_session EXCEPT ![r] = None]
    /\ Respond(r, 500, "reply_text", SendFailureText)

\* routes.py:128/136/161 then 318-322: get_or_create returned None
BuildFailed(r) ==
    /\ gemini_sessions' = SessionsAfterFailure(gemini_sessions, chapter_num[r])
    /\ chat_session' = [chat_session EXCEPT ![r] = None]
    /\ Respond(r, 503, "reply_text", ContextFailureText)

----------------------------------------------------------------------------
(* The steps of one request                                                *)

\* The server has received request q, at whichever endpoint
Arrived(q) == pc[q] # "idle" \/ api[q].endpoint # "none"

\* routes.py:304-314: the request arrives, the body is validated
Receive(r) ==
    /\ ~Arrived(r)
    /\ \A q \in Requests : q < r => Arrived(q)
    /\ \E ch \in ChapterInputs, q \in BOOLEAN :
        /\ chapter_num' = [chapter_num EXCEPT ![r] = ch]
        /\ has_query' = [has_query EXCEPT ![r] = q]
        /\ IF q
              THEN /\ pc' = [pc EXCEPT ![r] = "lookup"]
                   /\ UNCHANGED <<status, body, response_field>>
              ELSE Respond(r, 400, "error", MissingQueryText)
    /\ UNCHANGED <<gemini_sessions, content, asset, observed, chat_session, calls,
                   history, response_text>>
    /\ UNCHANGED apivars

\* routes.py:116-128: cache lookup, then the content file test
Lookup(r) ==
    /\ pc[r] = "lookup"
    /\ LET ch == chapter_num[r] IN
        IF ch \in DOMAIN gemini_sessions
           THEN IF gemini_sessions[ch] = None
                   THEN /\ BuildFailed(r)
                   ELSE /\ chat_session' = [chat_session EXCEPT ![r] = gemini_sessions[ch]]
                        /\ pc' = [pc EXCEPT ![r] = "send_message"]
                        /\ UNCHANGED <<gemini_sessions, status, body, response_field>>
           ELSE IF ch \notin content
                   THEN BuildFailed(r)
                   ELSE /\ pc' = [pc EXCEPT ![r] = "upload_file"]
                        /\ UNCHANGED <<gemini_sessions, chat_session, status, body, response_field>>
    /\ UNCHANGED <<content, chapter_num, has_query, asset, observed, calls, history,
                   response_text>>
    /\ UNCHANGED apivars

\* routes.py:132: genai.upload_file returns a file in some state, or raises
UploadFile(r) ==
    /\ pc[r] = "upload_file"
    /\ calls' = [calls EXCEPT ![r] = @ \cup {"upload_file"}]
    /\ \/ /\ \E st \in AssetStates : asset' = [asset EXCEPT ![r] = st]
          /\ pc' = [pc EXCEPT ![r] = "get_file"]
          /\ UNCHANGED <<gemini_sessions, chat_session, status, body, response_field>>
       \/ /\ BuildFailed(r)
          /\ UNCHANGED asset
    /\ UNCHANGED <<content, chapter_num, has_query, observed, history, response_text>>
    /\ UNCHANGED apivars

\* routes.py:100-107: genai.get_file, the loop test and the test after the loop
GetFile(r) ==
    /\ pc[r] = "get_file"
    /\ calls' = [calls EXCEPT ![r] = @ \cup {"get_file"}]
    /\ \/ /\ observed' = [observed EXCEPT ![r] = asset[r]]
          /\ IF asset[r] = "PROCESSING"
                THEN /\ pc' = [pc EXCEPT ![r] = "sleep"]
                     /\ UNCHANGED <<gemini_sessions, chat_session, status, body, response_field>>
                ELSE IF FileReady(asset[r])
                        THEN /\ pc' = [pc EXCEPT ![r] = "start_chat"]
                             /\ UNCHANGED <<gemini_sessions, chat_session, status, body, response_field>>
                        ELSE BuildFailed(r)
       \/ /\ BuildFailed(r)
          /\ UNCHANGED observed
    /\ UNCHANGED <<content, chapter_num, has_query, asset, history, response_text>>
    /\ UNCHANGED apivars

\* routes.py:103: time.sleep(5), then back to get_file
Sleep(r) ==
    /\ pc[r] = "sleep"
    /\ pc' = [pc EXCEPT ![r] = "get_file"]
    /\ UNCHANGED <<gemini_sessions, content, chapter_num, has_query, asset, observed,
                   chat_session, calls, history, status, response_text, body,
                   response_field>>
    /\ UNCHANGED apivars

\* routes.py:139-154: start_chat seeded with the uploaded file, then the cache store
StartChat(r) ==
    /\ pc[r] = "start_chat"
    /\ calls' = [calls EXCEPT ![r] = @ \cup {"start_chat"}]
    /\ \/ /\ history' = [history EXCEPT ![r] = << <<"document", chapter_num[r]>> >>]
          /\ gemini_sessions' = StoreSession(gemini_sessions, chapter_num[r], r)
          /\ chat_session' = [chat_session EXCEPT ![r] = r]
          /\ pc' = [pc EXCEPT ![r] = "send_message"]
          /\ UNCHANGED <<status, body, response_field>>
       \/ /\ BuildFailed(r)
          /\ UNCHANGED history
    /\ UNCHANGED <<content, chapter_num, has_query, asset, observed, response_text>>
    /\ UNCHANGED apivars

\* send_message under a lock that a building request holds for the whole cache:
\* a plausible way of getting single-flight wrong
SendMessageUnderCacheLock(r) ==
    /\ pc[r] = "send_message"
    /\ \A q \in Requests \ {r} : pc[q] \notin {"get_file", "sleep", "start_chat"}
    /\ calls' = [calls EXCEPT ![r] = @ \cup {"send_message"}]
    /\ history' = [history EXCEPT ![chat_session[r]] = Append(@, <<"query", r>>)]
    /\ pc' = [pc EXCEPT ![r] = "sending"]
    /\ UNCHANGED <<gemini_sessions, content, chapter_num, has_query, asset, observed,
                   chat_session, status, response_text, body,
                   response_field>>
    /\ UNCHANGED apivars

\* The query sent into the start-up session of clients.py:71: a plausible slip
SendMessageIntoStartupSession(r) ==
    /\ pc[r] = "send_message"
    /\ calls' = [calls EXCEPT ![r] = @ \cup {"send_message"}]
    /\ chat_history' = Append(chat_history, <<"q">>)
    /\ pc' = [pc EXCEPT ![r] = "sending"]
    /\ UNCHANGED <<gemini_sessions, content, chapter_num, has_query, asset, observed,
                   chat_session, history, status, response_text, body, response_field>>
    /\ UNCHANGED <<enc, clients, api, rec>>

\* routes.py:326: chat_session.send_message(user_query) reaches the provider
SendMessage(r) ==
    /\ pc[r] = "send_message"
    /\ calls' = [calls EXCEPT ![r] = @ \cup {"send_message"}]
    /\ history' = [history EXCEPT ![chat_session[r]] = Append(@, <<"query", r>>)]
    /\ pc' = [pc EXCEPT ![r] = "sending"]
    /\ UNCHANGED <<gemini_sessions, content, chapter_num, has_query, asset, observed,
                   chat_session, status, response_text, body,
                   response_field>>
    /\ UNCHANGED apivars

\* An except clause that drops the chapter's entry so as to rebuild it: a plausible slip
SessionsAfterSendFailureEvicted(sessions, ch) ==
    [c \in (DOMAIN sessions) \ {ch} |-> sessions[c]]

\* routes.py:338-342: the except clause does not touch gemini_sessions
SessionsAfterSendFailure(sessions, ch) == sessions

\* routes.py:326-342: the provider answers or the call raises
Reply(r) ==
    /\ pc[r] = "sending"
    /\ \/ \E text \in ProviderReplies :
            /\ response_text' = [response_text EXCEPT ![r] = text]
            /\ Respond(r, 200, "reply_text", NormalizeReply(text))
            /\ UNCHANGED gemini_sessions
       \/ /\ Respond(r, 500, "reply_text", SendFailureText)
          /\ gemini_sessions' = SessionsAfterSendFailure(gemini_sessions, chapter_num[r])
          /\ UNCHANGED response_text
    /\ UNCHANGED <<content, chapter_num, has_query, asset, observed,
                   chat_session, calls, history>>
    /\ UNCHANGED apivars

\* The provider finishes processing an uploaded file
ProviderProcess(r) ==
    /\ asset[r] = "PROCESSING"
    /\ \E st \in {"ACTIVE", "FAILED"} : asset' = [asset EXCEPT ![r] = st]
    /\ UNCHANGED <<gemini_sessions, content, pc, chapter_num, has_query, observed,
                   chat_session, calls, history, status, response_text, body,
                   response_field>>
    /\ UNCHANGED apivars

Step(r) ==
    \/ Receive(r)
    \/ Lookup(r)
    \/ UploadFile(r)
    \/ GetFile(r)
    \/ Sleep(r)
    \/ StartChat(r)
    \/ SendMessage(r)
    \/ Reply(r)

Next ==
    \/ \E r \in Requests : Step(r)
    \/ \E r \in Requests : ProviderProcess(r)

Spec == Init /\ [][Next]_vars

\* Every received request's thread keeps running; the provider owes nothing.
FairSpec == Spec /\ \A r \in Requests : WF_vars(Step(r))

----------------------------------------------------------------------------
(* The classifier on its own: one call for every pair of arguments         *)

EncInit ==
    /\ Init
    /\ content = {1}

\* routes.py:244, encoding = get_stt_encoding(audio_file.mimetype, audio_file.filename)
Classify ==
    /\ enc.encoding = "unset"
    /\ \E mimetype \in MimeTypes, filename \in FileNames :
        enc' = [mimetype |-> mimetype, filename |-> filename,
                encoding |-> get_stt_encoding(mimetype, filename)]
    /\ UNCHANGED <<assistantvars, clients, chat_history, api, rec>>

EncNext == Classify

EncSpec == EncInit /\ [][EncNext]_vars

----------------------------------------------------------------------------
(* /api/greet, /api/speak and /api/chat                                    *)

\* The outcome of a call: a returned value or a raised exception
Return(v) == [raised |-> FALSE, type |-> "", msg |-> << >>, value |-> v]

Raise(type, msg) == [raised |-> TRUE, type |-> type, msg |-> msg, value |-> NoneStr]

\* str(e) of the exceptions the providers raise
ExceptionTexts == {"429 quota exceeded", "504 deadline exceeded"}

\* tts_client.synthesize_speech: audio bytes, or an exception
SynthOutcomes == {Return(<<"audio bytes">>)} \cup {Raise("Exception", <<e>>) : e \in ExceptionTexts}

\* speech_client.recognize: the results, each a list of alternative transcripts
SttOutcomes ==
    { Return(<< >>),
      Return(<< << >> >>),
      Return(<< << <<" ", " ">> >> >>),
      Return(<< << <<" ", "h", "e", "l", "l", "o", " ">> >> >>),
      Raise("Exception", <<"429 quota exceeded">>) }

\* chat_session.send_message: the parts of the response, or an exception
GeminiOutcomes ==
    {Return(<< >>), Return(<< <<"o", "k">> >>), Raise("Exception", <<"504 deadline exceeded">>)}

\* The 'text' of a JSON body: absent, empty, blank, padded
TextInputs == {NoneStr, << >>, <<" ", " ">>, <<" ", "h", "i", " ">>}

\* routes.py:172
GreetingText ==
    <<"Hello! I'm active now. Click on any paragraph to hear it read aloud, or right-click me to chat.">>

\* clients.py:84-125
synthesize_text(text, outcome) ==
    IF ~clients.tts_client
       THEN Raise("ConnectionError", <<"TTS Client not available">>)
       ELSE outcome

\* recognize_speech without the test of clients.py:155-157: a plausible slip
recognize_speech_blank_kept(outcome) ==
    IF ~clients.speech_client
       THEN Raise("ConnectionError", <<"Speech Client not available">>)
    ELSE IF outcome.raised THEN outcome
    ELSE LET stt_response == outcome.value IN
        IF stt_response # << >> /\ stt_response[1] # << >>
           THEN Return(strip(stt_response[1][1]))
           ELSE Return(NoneStr)

\* clients.py:128-168
recognize_speech(outcome) ==
    IF ~clients.speech_client
       THEN Raise("ConnectionError", <<"Speech Client not available">>)
    ELSE IF outcome.raised THEN outcome
    ELSE LET stt_response == outcome.value IN
        IF stt_response # << >> /\ stt_response[1] # << >>
           THEN LET transcript == strip(stt_response[1][1]) IN
                    Return(IF transcript = << >> THEN NoneStr ELSE transcript)
           ELSE Return(NoneStr)

\* clients.py:171-203
send_to_gemini(user_text, outcome) ==
    IF ~clients.chat_session
       THEN Raise("ConnectionError", <<"Chat service (Gemini) is not available.">>)
    ELSE IF ~Truthy(user_text)
       THEN Raise("ValueError", <<"Cannot send empty message to Gemini">>)
    ELSE LET inside_try ==
                IF outcome.raised THEN outcome
                ELSE IF outcome.value # << >> THEN Return(outcome.value[1])
                ELSE Raise("ValueError", <<"Gemini response blocked or empty">>)
         IN IF inside_try.raised
               THEN Raise("ConnectionError", <<"Gemini API call failed: ">> \o inside_try.msg)
               ELSE inside_try

\* A response: status, kind of body (error JSON, reply JSON, audio bytes), its text
Response(code, kind, text) == [status |-> code, kind |-> kind, text |-> text]

\* routes.py:19-24
make_error_response(message, status_code) == Response(status_code, "error", message)

\* A request as received, nothing done yet
ApiRequest(endpoint, input) ==
    [endpoint |-> endpoint, input |-> input, encoding |-> "unset",
     stt |-> "not called", gemini |-> "not called", calls |-> << >>,
     conversation |-> << >>, raised |-> "", exc |-> << >>,
     stt_transcript |-> NoneStr, user_text |-> NoneStr, response |-> Response(0, "", << >>)]

\* The body of a request that carries JSON
JsonInput(text) ==
    [kind |-> "json", text |-> text, audio_empty |-> FALSE, mimetype |-> NoneStr,
     filename |-> NoneStr]

\* The next request the server receives is r
NextApi(r) ==
    /\ ~Arrived(r)
    /\ \A q \in Requests : q < r => Arrived(q)

\* The message of a provider exception, none when the call returned
ExcText(outcome) == IF outcome.raised /\ outcome.type = "Exception" THEN outcome.msg ELSE << >>

\* routes.py:173-184 and 201-210: the audio response, or the except clauses
SynthResponse(result) ==
    IF ~result.raised THEN Response(200, "audio", result.value)
    ELSE IF result.type = "ConnectionError" THEN make_error_response(result.msg, 503)
    ELSE make_error_response(<<"TTS Synthesis failed: ">> \o result.msg, 500)

\* routes.py:165-184
get_greeting_speech(r) ==
    /\ clients.generation = "server"
    /\ NextApi(r)
    /\ LET req == ApiRequest("greet", JsonInput(NoneStr)) IN
        IF ~clients.tts_client
           THEN api' = [api EXCEPT ![r] = [req EXCEPT
                    !.response = make_error_response(<<"Backend TTS service not available">>, 503)]]
           ELSE \E outcome \in SynthOutcomes :
                    api' = [api EXCEPT ![r] = [req EXCEPT
                        !.calls = << <<"synthesize_speech", GreetingText>> >>,
                        !.exc = ExcText(outcome),
                        !.response = SynthResponse(synthesize_text(GreetingText, outcome))]]
    /\ UNCHANGED <<assistantvars, enc, clients, chat_history, rec>>

\* routes.py:196 without the strip(): a plausible slip
text_to_speak_unstripped(text) == text

\* routes.py:196, text_to_speak = data['text'].strip()
text_to_speak(text) == strip(text)

\* routes.py:186-210
speak_text(r) ==
    /\ clients.generation = "server"
    /\ NextApi(r)
    /\ \E text \in TextInputs :
        LET req == ApiRequest("speak", JsonInput(text)) IN
        IF ~clients.tts_client
           THEN api' = [api EXCEPT ![r] = [req EXCEPT
                    !.response = make_error_response(<<"Backend TTS service not available">>, 503)]]
        ELSE IF text = NoneStr
           THEN api' = [api EXCEPT ![r] = [req EXCEPT
                    !.response = make_error_response(<<"Missing 'text' in request body">>, 400)]]
        ELSE IF text_to_speak(text) = << >>
           THEN api' = [api EXCEPT ![r] = [req EXCEPT
                    !.response = make_error_response(<<"'text' cannot be empty">>, 400)]]
        ELSE \E outcome \in SynthOutcomes :
                api' = [api EXCEPT ![r] = [req EXCEPT
                    !.calls = << <<"synthesize_speech", text_to_speak(text)>> >>,
                    !.exc = ExcText(outcome),
                    !.response = SynthResponse(synthesize_text(text_to_speak(text), outcome))]]
    /\ UNCHANGED <<assistantvars, enc, clients, chat_history, rec>>

\* The body of a request that carries an audio_blob file part
AudioInput(audio_empty, mimetype, filename) ==
    [kind |-> "audio", text |-> NoneStr, audio_empty |-> audio_empty,
     mimetype |-> mimetype, filename |-> filename]

\* The body of a request that carries neither
OtherInput ==
    [kind |-> "other", text |-> NoneStr, audio_empty |-> FALSE, mimetype |-> NoneStr,
     filename |-> NoneStr]

\* The uploads tried: a codec named in the mimetype, and no codec named at all
AudioUploads == {<<M_webm_opus, F_blob>>, <<M_octet, F_blob>>}

\* The bodies POSTed to /api/chat
ChatInputs ==
    {JsonInput(text) : text \in TextInputs}
        \cup {AudioInput(TRUE, M_webm_opus, F_x_webm)}
        \cup {AudioInput(FALSE, upload[1], upload[2]) : upload \in AudioUploads}
        \cup {OtherInput}

\* The recognition outcomes to try: one is enough when no audio is sent
SttOutcomesFor(input) ==
    IF input.kind = "audio" /\ ~input.audio_empty THEN SttOutcomes ELSE {Return(<< >>)}

\* What happened at a provider call
OutcomeKind(outcome, empty, full) ==
    IF outcome.raised THEN "raised" ELSE IF outcome.value = << >> THEN empty ELSE full

\* routes.py:254-256
NoSpeechText == <<"[No speech detected or transcription empty]">>

\* routes.py:265
SttErrorText == <<"[Speech recognition error occurred]">>

\* routes.py:294
RefusalText == <<"I cannot provide a response to that query.">>

\* routes.py:300
ChatFailureText == <<"Sorry, I had trouble processing that request. Please try again.">>

\* routes.py:272-300: req.user_text goes to the shared chat session
ChatGeminiStage(req, outcome) ==
    IF ~clients.chat_session
       THEN [req EXCEPT !.response =
                make_error_response(<<"Chat service (Gemini) is not available.">>, 503)]
    ELSE LET result == send_to_gemini(req.user_text, outcome)
             sent == IF Truthy(req.user_text)
                        THEN [req EXCEPT !.calls = Append(@, <<"send_message", req.user_text>>),
                                         !.gemini = OutcomeKind(outcome, "no parts", "reply"),
                                         !.conversation = Append(chat_history, req.user_text),
                                         !.exc = ExcText(outcome)]
                        ELSE req
         IN [sent EXCEPT
                !.raised = result.type,
                !.response =
                    IF ~result.raised THEN Response(200, "reply", result.value)
                    ELSE IF result.type = "ConnectionError"
                        THEN make_error_response(result.msg, 503)
                    ELSE IF result.type = "ValueError"
                        THEN make_error_response(RefusalText, 400)
                    ELSE make_error_response(ChatFailureText, 500)]

\* routes.py:231-266: the audio branch up to user_text; a response set means return
ChatAudioStage(req, outcome) ==
    IF ~clients.speech_client
       THEN [req EXCEPT !.response =
                make_error_response(<<"Backend STT service not available">>, 503)]
    ELSE IF req.input.audio_empty
       THEN [req EXCEPT !.response = make_error_response(<<"Received empty audio file">>, 400)]
    ELSE LET encoding == get_stt_encoding(req.input.mimetype, req.input.filename) IN
        IF encoding = "ENCODING_UNSPECIFIED"
           THEN [req EXCEPT !.encoding = encoding,
                            !.response = make_error_response(
                                <<"Could not determine audio encoding. Please provide WEBM/Opus, OGG/Opus, WAV, MP3, or FLAC.">>,
                                415)]
        ELSE LET result == recognize_speech(outcome)
                 called == [req EXCEPT !.encoding = encoding,
                                       !.calls = Append(@, <<"recognize", encoding>>),
                                       !.stt = OutcomeKind(outcome, "no results", "results")]
             IN IF ~result.raised
                   THEN [called EXCEPT !.stt_transcript = result.value,
                                       !.user_text = IF Truthy(result.value)
                                                        THEN result.value ELSE NoSpeechText]
                ELSE IF result.type = "ConnectionError"
                   THEN [called EXCEPT !.response = make_error_response(result.msg, 503)]
                ELSE [called EXCEPT !.user_text = SttErrorText]

\* The JSON branch behind the chat session test, the order of app.py:172-174: a plausible slip
ChatJsonStageSessionFirst(req) ==
    IF ~clients.chat_session
       THEN [req EXCEPT !.response =
                make_error_response(<<"Chat service (Gemini) is not available.">>, 503)]
    ELSE IF req.input.text # NoneStr /\ strip(req.input.text) # << >>
       THEN [req EXCEPT !.user_text = strip(req.input.text)]
       ELSE [req EXCEPT !.response = make_error_response(<<"'text' cannot be empty">>, 400)]

\* routes.py:219-228: the JSON branch up to user_text; a response set means return
ChatJsonStage(req) ==
    IF req.input.text # NoneStr
       THEN IF strip(req.input.text) = << >>
               THEN [req EXCEPT !.response =
                        make_error_response(<<"'text' cannot be empty">>, 400)]
               ELSE [req EXCEPT !.user_text = strip(req.input.text)]
       ELSE [req EXCEPT !.response =
                make_error_response(<<"Invalid JSON or missing 'text' field">>, 400)]

\* The request has been answered
Returned(req) == req.response.status # 0

\* The chat outcomes to try: one is enough when the request is answered already
GeminiOutcomesFor(staged) == IF Returned(staged) THEN {Return(<< >>)} ELSE GeminiOutcomes

\* What the shared chat session remembers after the request
HistoryAfter(req) ==
    IF req.gemini = "reply"
       THEN chat_history \o <<req.user_text, req.response.text>>
       ELSE chat_history

\* routes.py:212-300
handle_chat(r) ==
    /\ clients.generation = "server"
    /\ NextApi(r)
    /\ \E input \in ChatInputs :
       \E stt \in SttOutcomesFor(input) :
        LET req == ApiRequest("chat", input)
            staged == IF input.kind = "json" THEN ChatJsonStage(req)
                      ELSE IF input.kind = "audio" THEN ChatAudioStage(req, stt)
                      ELSE [req EXCEPT !.response = make_error_response(
                                <<"Request must contain JSON with 'text' or an 'audio_blob' file part">>,
                                400)]
        IN \E before_chat \in {staged} :
           \E gemini \in GeminiOutcomesFor(before_chat) :
           \E final \in {IF Returned(before_chat) THEN before_chat
                          ELSE ChatGeminiStage(before_chat, gemini)} :
               /\ api' = [api EXCEPT ![r] = final]
               /\ chat_history' = HistoryAfter(final)
    /\ UNCHANGED <<assistantvars, enc, clients, rec>>

\* app.py:239-268: the audio branch of the first app, always ends with a user_text
AppAudioStage(req, outcome) ==
    IF ~clients.speech_client
       THEN [req EXCEPT !.response =
                make_error_response(<<"Backend STT service not available">>, 503)]
    ELSE IF req.input.audio_empty
       THEN [req EXCEPT !.response = make_error_response(<<"Received empty audio file">>, 400)]
    ELSE LET encoding == app_stt_encoding(req.input.mimetype, req.input.filename)
             called == [req EXCEPT !.encoding = encoding,
                                   !.calls = Append(@, <<"recognize", encoding>>),
                                   !.stt = OutcomeKind(outcome, "no results", "results")]
         IN IF outcome.raised
               THEN [called EXCEPT !.user_text = <<"[STT Error]">>]
            ELSE IF outcome.value # << >> /\ outcome.value[1] # << >>
               THEN LET transcript == strip(outcome.value[1][1]) IN
                        [called EXCEPT !.user_text = IF transcript = << >>
                                                        THEN <<"[Empty Transcription]">>
                                                        ELSE transcript]
            ELSE [called EXCEPT !.user_text = <<"[No Speech Detected]">>]

\* app.py:275-308: every outcome of the Gemini call is a 200 with a reply_text
AppGeminiStage(req, outcome) ==
    LET sent == [req EXCEPT !.calls = Append(@, <<"send_message", req.user_text>>),
                            !.gemini = OutcomeKind(outcome, "no parts", "reply"),
                            !.conversation = Append(chat_history, req.user_text),
                            !.exc = ExcText(outcome)]
    IN [sent EXCEPT !.response =
            IF outcome.raised
               THEN Response(200, "reply",
                        <<"Sorry, I had trouble thinking about that. Could you please try again?">>)
            ELSE IF outcome.value # << >> THEN Response(200, "reply", outcome.value[1])
            ELSE Response(200, "reply", RefusalText)]

\* app.py:169-308
app_handle_chat(r) ==
    /\ clients.generation = "app"
    /\ NextApi(r)
    /\ \E input \in ChatInputs :
       \E stt \in SttOutcomesFor(input) :
        LET req == ApiRequest("chat", input)
            staged == IF ~clients.chat_session
                         THEN [req EXCEPT !.response = make_error_response(
                                <<"Chat service (Gemini) is not available.">>, 503)]
                      ELSE IF input.kind = "json" THEN ChatJsonStage(req)
                      ELSE IF input.kind = "audio" THEN AppAudioStage(req, stt)
                      ELSE [req EXCEPT !.response = make_error_response(
                                <<"Request must contain JSON with 'text' or an 'audio_blob' file part">>,
                                400)]
        IN \E before_chat \in {staged} :
           \E gemini \in GeminiOutcomesFor(before_chat) :
           \E final \in {IF Returned(before_chat) THEN before_chat
                          ELSE AppGeminiStage(before_chat, gemini)} :
               /\ api' = [api EXCEPT ![r] = final]
               /\ chat_history' = HistoryAfter(final)
    /\ UNCHANGED <<assistantvars, enc, clients, rec>>

\* The provider clients that initialised (clients.py:9-76, app.py:60-100)
\* The setups tried: the server with at most one provider missing, the first app with all
ClientSetups ==
    { setup \in [generation : {"server", "app"}, tts_client : BOOLEAN,
                 speech_client : BOOLEAN, chat_session : BOOLEAN] :
        /\ ~setup.tts_client => setup.speech_client /\ setup.chat_session
        /\ ~setup.speech_client => setup.chat_session
        /\ setup.generation = "app" =>
                setup.tts_client /\ setup.speech_client /\ setup.chat_session }

ApiInit ==
    /\ AssistantAtRest
    /\ content = {1}
    /\ enc = EncUnset
    /\ clients \in ClientSetups
    /\ chat_history = << >>
    /\ api = [r \in Requests |-> ApiIdle]
    /\ rec = RecUnset

ApiNext ==
    \/ \E r \in Requests : get_greeting_speech(r)
    \/ \E r \in Requests : speak_text(r)
    \/ \E r \in Requests : handle_chat(r)
    \/ \E r \in Requests : app_handle_chat(r)

ApiSpec == ApiInit /\ [][ApiNext]_vars

----------------------------------------------------------------------------
(* All the endpoints of the server together                                *)

\* The server of routes.py, every client initialised: each request goes to one endpoint
MixNext ==
    \/ Next
    \/ \E r \in Requests : get_greeting_speech(r)
    \/ \E r \in Requests : speak_text(r)
    \/ \E r \in Requests : handle_chat(r)

\* Chapter 1 is on disk, chapters 2 and 5 are not
MixInit ==
    /\ Init
    /\ content = {1}

MixSpec == MixInit /\ [][MixNext]_vars

----------------------------------------------------------------------------
(* recognize_speech on its own                                             *)

\* The most results in a response, and the most alternatives in a result
MaxResults == 2

\* The sequences over S of length at most n
SeqsUpTo(S, n) == UNION {[1..k -> S] : k \in 0..n}

\* The transcripts of the alternatives: blank, padded
Transcripts == {<<" ", " ">>, <<" ", "h", "i", " ">>}

\* speech_client.recognize: any list of results, each any list of alternatives, or an exception
RecognizeOutcomes ==
    {Return(results) : results \in SeqsUpTo(SeqsUpTo(Transcripts, MaxResults), MaxResults)}
        \cup {Raise("Exception", <<e>>) : e \in ExceptionTexts}

\* clients.py:130-144: the calls of speech_client.recognize in one recognize_speech
recognize_calls == IF ~clients.speech_client THEN 0 ELSE 1

RecInit ==
    /\ AssistantAtRest
    /\ content = {1}
    /\ enc = EncUnset
    /\ clients \in ClientSetups
    /\ chat_history = << >>
    /\ api = [r \in Requests |-> ApiIdle]
    /\ rec = RecUnset

\* clients.recognize_speech(audio_content, encoding)
Recognize ==
    /\ rec.state = "unset"
    /\ \E outcome \in RecognizeOutcomes :
        rec' = [state |-> "called", outcome |-> outcome, provider_calls |-> recognize_calls,
                result |-> recognize_speech(outcome)]
    /\ UNCHANGED <<assistantvars, enc, clients, chat_history, api>>

RecNext == Recognize

RecSpec == RecInit /\ [][RecNext]_vars

----------------------------------------------------------------------------
(* Derived notions used by the properties                                  *)

\* The request has uploaded and its build has not ended yet.
Building(r) == pc[r] \in {"get_file", "sleep", "start_chat"}

\* Requests that called genai.upload_file for chapter ch.
Uploaders(ch) == {r \in Requests : chapter_num[r] = ch /\ "upload_file" \in calls[r]}

Ready(ch) == ch \in DOMAIN gemini_sessions

\* The step in which request r's get_or_create_gemini_session returns None.
ReportsFailure(r) == pc[r] \in {"lookup", "upload_file", "get_file", "start_chat"}
                     /\ pc'[r] = "done"

\* Query turns of a session, as request numbers, in the order the provider got them.
QueryTurns(s) == SelectSeq(history[s], LAMBDA t : t[1] = "query")

DocumentTurns(s) == SelectSeq(history[s], LAMBDA t : t[1] = "document")

SameLetter(a, b) == a = b \/ (a \in DOMAIN LowerToUpper /\ LowerToUpper[a] = b)

\* text is NOT_IN_SCOPE in any letter case, with whitespace only around it.
IsSentinel(text) ==
    \E i \in 0..Len(text) :
        /\ i + Len(NOT_IN_SCOPE) <= Len(text)
        /\ \A k \in 1..i : text[k] \in Whitespace
        /\ \A k \in 1..Len(NOT_IN_SCOPE) : SameLetter(text[i + k], NOT_IN_SCOPE[k])
        /\ \A k \in (i + Len(NOT_IN_SCOPE) + 1)..Len(text) : text[k] \in Whitespace

----------------------------------------------------------------------------
(* C1: single-flight build. For any chapter id at most one upload-and-     *)
(* grounding sequence is in flight at a time: no two requests are both     *)
(* between their upload_file call and the end of their build for the same  *)
(* chapter, and a chapter is never uploaded by two requests that were      *)
(* concurrent first-time callers.                                          *)
C1_SingleFlight ==
    \A r1, r2 \in Requests :
        (r1 # r2 /\ Building(r1) /\ Building(r2)) => chapter_num[r1] # chapter_num[r2]

(* C2: context identity. Every cached chapter maps to a context seeded     *)
(* with exactly one document, that chapter's, as its first turn, and every *)
(* send_message of a request goes to the context that is the cache entry   *)
(* of its chapter at that moment.                                          *)
CachedBuiltFromOwnDocument ==
    \A ch \in DOMAIN gemini_sessions :
        LET s == gemini_sessions[ch] IN
            /\ s \in Sessions
            /\ history[s] # << >>
            /\ history[s][1] = <<"document", ch>>
            /\ Len(DocumentTurns(s)) = 1

SendsOnCacheEntry ==
    \A r \in Requests :
        (pc[r] = "send_message" /\ pc'[r] = "sending") =>
            /\ Ready(chapter_num[r])
            /\ chat_session[r] = gemini_sessions[chapter_num[r]]

C2_ContextIdentity == [](CachedBuiltFromOwnDocument) /\ [][SendsOnCacheEntry]_vars

(* C3: cache-hit idempotence. A request that looks up a READY chapter gets *)
(* the cached context at once and makes no upload, get_file or start_chat  *)
(* call, and once a chapter is READY the number of uploads made for it     *)
(* does not grow any more.                                                 *)
HitReturnsCached ==
    \A r \in Requests :
        (pc[r] = "lookup" /\ Ready(chapter_num[r]) /\ pc'[r] # "lookup") =>
            /\ pc'[r] = "send_message"
            /\ chat_session'[r] = gemini_sessions[chapter_num[r]]
            /\ calls'[r] = {}

UploadsFrozenOnceReady ==
    \A ch \in ChapterInputs : Ready(ch) => Uploaders(ch)' = Uploaders(ch)

C3_CacheHitPath == [][HitReturnsCached]_vars

C3_CacheHitIdempotent == [][HitReturnsCached /\ UploadsFrozenOnceReady]_vars

(* C4: a failed build reverts to ABSENT. When get_or_create_gemini_session *)
(* reports failure for a request, the cache is as it was and holds no      *)
(* entry for the request's chapter, so that the next lookup of the chapter *)
(* starts a fresh build.                                                   *)
FailureLeavesCacheAlone ==
    \A r \in Requests : ReportsFailure(r) => gemini_sessions' = gemini_sessions

FailureLeavesAbsent ==
    \A r \in Requests : ReportsFailure(r) => ~Ready(chapter_num[r])'

AbsentLookupBuilds ==
    \A r \in Requests :
        (pc[r] = "lookup" /\ ~Ready(chapter_num[r]) /\ chapter_num[r] \in content
            /\ pc'[r] # "lookup") => pc'[r] = "upload_file"

C4_FailureFrame == [][FailureLeavesCacheAlone /\ AbsentLookupBuilds]_vars

C4_FailureRevertsToAbsent ==
    [][FailureLeavesCacheAlone /\ FailureLeavesAbsent /\ AbsentLookupBuilds]_vars

(* C5: bounded readiness polling. Every request the server has received is *)
(* eventually answered, also when the uploaded asset stays in PROCESSING   *)
(* for ever.                                                               *)
C5_EveryRequestAnswered ==
    \A r \in Requests : (pc[r] # "idle") ~> (pc[r] = "done")

(* C6: no context from a non-ACTIVE asset. A request calls start_chat, and *)
(* its session is stored in the cache, only after its get_file saw the     *)
(* uploaded asset ACTIVE; a request whose polling ended on any other state *)
(* has created no context and cached nothing.                              *)
C6_ContextOnlyFromActive ==
    \A r \in Requests :
        /\ (pc[r] = "start_chat" \/ "start_chat" \in calls[r]) =>
                (observed[r] = "ACTIVE" /\ asset[r] = "ACTIVE")
        /\ (\E ch \in DOMAIN gemini_sessions : gemini_sessions[ch] = r) =>
                (observed[r] = "ACTIVE" /\ asset[r] = "ACTIVE")
        /\ (pc[r] = "done" /\ observed[r] # "ACTIVE") =>
                (/\ "start_chat" \notin calls[r]
                 /\ history[r] = << >>
                 /\ \A ch \in DOMAIN gemini_sessions : gemini_sessions[ch] # r)

C6_Witness ==
    \E r1, r2 \in Requests :
        /\ pc[r1] = "done" /\ observed[r1] = "FAILED" /\ status[r1] = 503
        /\ chapter_num[r2] = chapter_num[r1]
        /\ Ready(chapter_num[r2]) /\ gemini_sessions[chapter_num[r2]] = r2

(* C7: an unknown chapter is rejected up front. A request that carries a   *)
(* query for a chapter id outside the valid set never reaches              *)
(* get_or_create_gemini_session, makes no provider call and is answered    *)
(* 404.                                                                    *)
C7_UnknownChapterRejected ==
    \A r \in Requests :
        (pc[r] # "idle" /\ has_query[r] /\ chapter_num[r] \notin ValidChapters) =>
            /\ pc[r] = "done"
            /\ status[r] = 404
            /\ calls[r] = {}

(* C8: in-order, serialized turns. Two requests never have send_message    *)
(* calls in progress on one context at the same time, the query turns of a *)
(* context are in the order the server received the requests, and the      *)
(* document is the first turn of every context.                            *)
SendsSerialized ==
    \A r1, r2 \in Requests :
        (r1 # r2 /\ pc[r1] = "sending" /\ pc[r2] = "sending") =>
            chat_session[r1] # chat_session[r2]

TurnsInArrivalOrder ==
    \A s \in Sessions :
        \A i, j \in 1..Len(QueryTurns(s)) :
            i < j => QueryTurns(s)[i][2] < QueryTurns(s)[j][2]

DocumentIsFirstTurn ==
    \A s \in Sessions :
        history[s] # << >> =>
            (history[s][1][1] = "document" /\ Len(DocumentTurns(s)) = 1)

C8_SerializedInOrder == SendsSerialized /\ TurnsInArrivalOrder /\ DocumentIsFirstTurn

(* C9: sentinel normalization. Whenever the provider's reply is            *)
(* NOT_IN_SCOPE up to surrounding whitespace and letter case, the          *)
(* reply_text sent to the client is the fixed refusal message; every other *)
(* reply is returned unchanged; the raw sentinel is never returned.        *)
C9_SentinelNormalized ==
    \A r \in Requests :
        status[r] = 200 =>
            /\ IsSentinel(response_text[r]) => body[r] = ScopeRefusal
            /\ ~IsSentinel(response_text[r]) => body[r] = response_text[r]
            /\ ~IsSentinel(body[r])

C9_Witness ==
    \E r1, r2 \in Requests :
        /\ status[r1] = 200 /\ response_text[r1] # NOT_IN_SCOPE
        /\ IsSentinel(response_text[r1]) /\ body[r1] = ScopeRefusal
        /\ status[r2] = 200 /\ ~IsSentinel(response_text[r2])
        /\ body[r2] = response_text[r2]

(* C10: cache monotonicity. gemini_sessions starts empty, a chapter enters *)
(* it only in the step in which a build for that chapter succeeds, and a   *)
(* chapter that is present stays present.                                  *)
EntriesStay == DOMAIN gemini_sessions \subseteq DOMAIN gemini_sessions'

EntryOnlyOnSuccessfulBuild ==
    \A ch \in ChapterInputs :
        (~Ready(ch) /\ Ready(ch)') =>
            \E r \in Requests :
                /\ chapter_num[r] = ch
                /\ pc[r] = "start_chat" /\ pc'[r] = "send_message"
                /\ gemini_sessions'[ch] = r
                /\ history'[r] = << <<"document", ch>> >>

C10_CacheMonotone ==
    /\ gemini_sessions = << >>
    /\ [][EntriesStay /\ EntryOnlyOnSuccessfulBuild]_vars

C10_Witness ==
    /\ Cardinality(DOMAIN gemini_sessions) = 2
    /\ \A r \in Requests : pc[r] = "done"

MissingContentMakesNoCall ==
    \A r \in Requests :
        (pc[r] # "idle" /\ has_query[r] /\ chapter_num[r] \notin content) =>
            /\ calls[r] = {}
            /\ pc[r] \in {"lookup", "done"}
            /\ ~Ready(chapter_num[r])
            /\ pc[r] = "done" => (status[r] = 503 /\ chat_session[r] = None)

MissingContentLeavesCache ==
    \A r \in Requests :
        (pc[r] = "lookup" /\ chapter_num[r] \notin content /\ pc'[r] # "lookup") =>
            /\ gemini_sessions' = gemini_sessions
            /\ calls' = calls
            /\ history' = history

C14_MissingContent == [](MissingContentMakesNoCall) /\ [][MissingContentLeavesCache]_vars

C14_Witness ==
    \E r1, r2 \in Requests :
        /\ pc[r1] = "done" /\ has_query[r1] /\ chapter_num[r1] \notin content
        /\ status[r1] = 503
        /\ Ready(chapter_num[r2]) /\ gemini_sessions[chapter_num[r2]] = r2

(* C16: no cache-wide blocking. A request the server has received and not  *)
(* yet answered can always take its next step, whatever build, poll or     *)
(* send another request is in the middle of, and the next request can      *)
(* always be received.                                                     *)
C16_NoCacheWideBlocking ==
    \A r \in Requests :
        /\ pc[r] \notin {"idle", "done"} => ENABLED Step(r)
        /\ (pc[r] = "idle" /\ \A q \in Requests : q < r => pc[q] # "idle") =>
                ENABLED Receive(r)

C16_Witness ==
    \E r1, r2 \in Requests :
        /\ pc[r1] \in {"get_file", "sleep"} /\ asset[r1] = "PROCESSING"
        /\ r1 < r2
        /\ chapter_num[r2] # chapter_num[r1]
        /\ pc[r2] = "done" /\ status[r2] = 200 /\ "upload_file" \in calls[r2]
        /\ gemini_sessions[chapter_num[r2]] = r2

(* C17: precedence of the encoding classifier. get_stt_encoding returns    *)
(* one tag of the six; a mimetype that is present and matches a known      *)
(* token decides the result alone, whatever the filename; the filename     *)
(* extension decides only when the mimetype is absent or not recognised;   *)
(* ("audio/webm;codecs=opus", "x.webm") gives WEBM_OPUS, (None, "a.flac")  *)
(* gives FLAC and (None, None) gives the unknown tag.                      *)
HasAll(s, tokens) == \A t \in tokens : Contains(s, t)

HasAny(s, tokens) == \E t \in tokens : Contains(s, t)

\* The mimetype table, in order: tokens that must all occur, tokens of which one
\* must occur (none asked when empty), the tag
MimetypeTable ==
    << <<{T_webm}, {T_opus, T_vorbis}, "WEBM_OPUS">>,
       <<{T_ogg}, {T_opus, T_vorbis}, "OGG_OPUS">>,
       <<{T_wav}, {}, "LINEAR16">>,
       <<{T_mp3}, {}, "MP3">>,
       <<{T_flac}, {}, "FLAC">> >>

\* The extension table: the extensions, the tag
ExtensionTable ==
    << <<{X_webm}, "WEBM_OPUS">>, <<{X_ogg, X_opus}, "OGG_OPUS">>, <<{X_wav}, "LINEAR16">>,
       <<{X_mp3}, "MP3">>, <<{X_flac}, "FLAC">> >>

MimetypeRows(mimetype) ==
    {k \in 1..Len(MimetypeTable) :
        /\ HasAll(lower(mimetype), MimetypeTable[k][1])
        /\ (MimetypeTable[k][2] = {} \/ HasAny(lower(mimetype), MimetypeTable[k][2]))}

ExtensionRows(filename) ==
    {k \in 1..Len(ExtensionTable) :
        \E x \in ExtensionTable[k][1] : EndsWith(lower(filename), x)}

Lowest(rows) == CHOOSE k \in rows : \A j \in rows : k <= j

MimetypeRecognised(mimetype) == Truthy(mimetype) /\ MimetypeRows(mimetype) # {}

ExpectedEncoding(mimetype, filename) ==
    IF MimetypeRecognised(mimetype)
       THEN MimetypeTable[Lowest(MimetypeRows(mimetype))][3]
    ELSE IF Truthy(filename) /\ ExtensionRows(filename) # {}
       THEN ExtensionTable[Lowest(ExtensionRows(filename))][2]
    ELSE "ENCODING_UNSPECIFIED"

C17_ClassifierPrecedence ==
    enc.encoding # "unset" =>
        /\ enc.encoding \in EncodingTags
        /\ enc.encoding = ExpectedEncoding(enc.mimetype, enc.filename)
        /\ MimetypeRecognised(enc.mimetype) =>
                \A filename \in FileNames :
                    get_stt_encoding(enc.mimetype, filename) = enc.encoding
        /\ (enc.mimetype = M_webm_opus /\ enc.filename = F_x_webm) =>
                enc.encoding = "WEBM_OPUS"
        /\ (enc.mimetype = NoneStr /\ enc.filename = F_a_flac) => enc.encoding = "FLAC"
        /\ (enc.mimetype = NoneStr /\ enc.filename = NoneStr) =>
                enc.encoding = "ENCODING_UNSPECIFIED"

C17_Witness ==
    /\ enc.mimetype = M_WEBM_OPUS
    /\ enc.filename = F_a_flac
    /\ enc.encoding = "WEBM_OPUS"


----------------------------------------------------------------------------
(* /api/speak                                                              *)

\* The answered requests of an endpoint
Answered(endpoint) == {r \in Requests : api[r].endpoint = endpoint}

\* 'text' is missing, empty or whitespace-only
BlankText(text) == text = NoneStr \/ strip(text) = << >>

\* The error bodies that speak of the text being missing or empty
SpeakTextErrors == {<<"Missing 'text' in request body">>, <<"'text' cannot be empty">>}

\* A blank text is refused with 400 and no provider call; any other text is
\* synthesised by exactly one call with the trimmed text
SpeakValidated(r) ==
    IF BlankText(api[r].input.text)
       THEN /\ api[r].response.status = 400
            /\ api[r].response.kind = "error"
            /\ api[r].response.text \in SpeakTextErrors
            /\ api[r].calls = << >>
       ELSE api[r].calls = << <<"synthesize_speech", strip(api[r].input.text)>> >>

\* C20 as stated: every /api/speak request with a missing, empty or
\* whitespace-only 'text' returns 400 with an error body about the text and
\* makes no synthesis call, and every other one calls the provider exactly once
\* with the trimmed text.
C20_SpeakValidatedAlways == \A r \in Answered("speak") : SpeakValidated(r)

\* C20 amended: with the TTS client initialised, /api/speak refuses a missing,
\* empty or whitespace-only 'text' with 400, an error body about the text and
\* no synthesis call, and synthesises any other text by exactly one call with
\* the trimmed text; with the TTS client uninitialised every /api/speak request
\* is answered 503 before its body is read, and no call is made.
C20_SpeakValidation ==
    \A r \in Answered("speak") :
        IF clients.tts_client
           THEN SpeakValidated(r)
           ELSE /\ api[r].response.status = 503
                /\ api[r].response.kind = "error"
                /\ api[r].calls = << >>

\* A whitespace-only text was refused and a padded text was spoken trimmed
C20_Witness ==
    \E r, q \in Answered("speak") :
        /\ api[r].input.text = <<" ", " ">>
        /\ api[r].response.status = 400
        /\ api[q].input.text = <<" ", "h", "i", " ">>
        /\ api[q].calls = << <<"synthesize_speech", <<"h", "i">> >> >>
        /\ api[q].response.status = 200


----------------------------------------------------------------------------
(* /api/chat                                                               *)

\* The /api/chat requests the server of routes.py has answered
ServerChats == IF clients.generation = "server" THEN Answered("chat") ELSE {}

\* C11: when send_message returns a response with no parts, what reaches
\* handle_chat is neither a reply nor the error of an unavailable or failed
\* provider, and /api/chat answers 400 with the fixed refusal message.
C11_BlockedIsDistinct ==
    \A r \in ServerChats :
        api[r].gemini = "no parts" =>
            /\ api[r].raised \notin {"", "ConnectionError"}
            /\ api[r].response = make_error_response(RefusalText, 400)


\* The pieces of text a response body is made of
Pieces(text) == {text[i] : i \in DOMAIN text}

\* The two requests were the same request and met the same kinds of outcome
SameRun(r, q) ==
    /\ api[r].endpoint = api[q].endpoint
    /\ api[r].input = api[q].input
    /\ api[r].stt = api[q].stt
    /\ api[r].gemini = api[q].gemini
    /\ (api[r].exc = << >>) = (api[q].exc = << >>)

\* C12: no response body carries the text of a provider exception, and two
\* requests that differ only in the message of the provider's exception get
\* the same response body.
C12_NoProviderText ==
    /\ \A r \in Requests :
        api[r].endpoint # "none" => Pieces(api[r].response.text) \cap Pieces(api[r].exc) = {}
    /\ \A r, q \in Requests :
        api[r].endpoint # "none" /\ api[q].endpoint # "none" /\ SameRun(r, q)
            => api[r].response = api[q].response


\* C15: the start-up chat session is read-only while requests are served:
\* it remembers nothing, and what the provider answers in an /api/chat request
\* is that request's own message alone, whatever earlier requests sent.
C15_ChatSessionReadOnly ==
    /\ chat_history = << >>
    /\ \A r \in Answered("chat") :
        api[r].gemini # "not called" => api[r].conversation = <<api[r].user_text>>


\* The speech-recognition calls a request made
RecognizeCalls(r) == {i \in DOMAIN api[r].calls : api[r].calls[i][1] = "recognize"}

\* C18: in both app generations, an /api/chat upload whose mimetype and
\* filename name no codec is answered 415 without a speech-recognition call,
\* and recognition is never called with an unspecified codec.
C18_UnknownCodecRejected ==
    \A r \in Answered("chat") :
        /\ api[r].encoding = "ENCODING_UNSPECIFIED" =>
                /\ api[r].response.status = 415
                /\ RecognizeCalls(r) = {}
        /\ \A i \in RecognizeCalls(r) : api[r].calls[i][2] # "ENCODING_UNSPECIFIED"


\* JSON without 'text', blank text, an empty audio blob, or neither JSON nor audio
Malformed(r) ==
    \/ api[r].input.kind = "json" /\ BlankText(api[r].input.text)
    \/ api[r].input.kind = "audio" /\ api[r].input.audio_empty
    \/ api[r].input.kind = "other"

\* A provider the request needs did not initialise
ProviderMissing(r) ==
    \/ api[r].input.kind = "audio" /\ ~clients.speech_client
    \/ ~clients.chat_session

\* A provider call of the request raised
ProviderFailed(r) == api[r].stt = "raised" \/ api[r].gemini = "raised"

\* C19: /api/chat answers 400 only to malformed input, 415 only to an
\* undeterminable codec, 503 only when a required provider is missing, 500
\* whenever a provider call fails, speech recognition included, and 200 with
\* a reply only when every provider call succeeded. (A response without parts
\* is C11's case and is left out.)
C19_ChatStatusMapping ==
    \A r \in ServerChats :
        api[r].gemini # "no parts" =>
            /\ api[r].response.status \in {200, 400, 415, 500, 503}
            /\ api[r].response.status = 400 => Malformed(r)
            /\ api[r].response.status = 415 => api[r].encoding = "ENCODING_UNSPECIFIED"
            /\ api[r].response.status = 503 => ProviderMissing(r)
            /\ ProviderFailed(r) /\ ~ProviderMissing(r) => api[r].response.status = 500
            /\ api[r].response.status = 200 =>
                    /\ ~ProviderFailed(r)
                    /\ api[r].gemini = "reply"
                    /\ api[r].response.kind = "reply"


----------------------------------------------------------------------------
(* The shape of failure responses                                          *)

\* C21: every response of /api/ask_chapter_assistant with a status other
\* than 200 is a JSON object that carries its message under "error", never
\* under the "reply_text" of a success.
C21_FailuresCarryError ==
    \A r \in Requests :
        pc[r] = "done" /\ status[r] # 200 => response_field[r] = "error"


----------------------------------------------------------------------------
(* recognize_speech                                                        *)

\* What the contract makes of a provider response: the first alternative of
\* the first result, trimmed, if there is one and it is not blank
ExpectedTranscript(results) ==
    IF Len(results) = 0 THEN NoneStr
    ELSE IF Len(Head(results)) = 0 THEN NoneStr
    ELSE IF strip(Head(Head(results))) = << >> THEN NoneStr
    ELSE strip(Head(Head(results)))

\* C22: recognize_speech raises the provider-unavailable error, and makes no
\* provider call, exactly when the speech client is uninitialised; it
\* re-raises the provider's exception; otherwise it returns the trimmed
\* transcript of the first alternative when that is non-empty, and None, as a
\* normal result, on zero results, zero alternatives or a blank transcript.
C22_RecognizeTrichotomy ==
    rec.state = "called" =>
        /\ (rec.result.raised /\ rec.result.type = "ConnectionError") <=> ~clients.speech_client
        /\ rec.provider_calls = 0 <=> ~clients.speech_client
        /\ clients.speech_client => rec.provider_calls = 1
        /\ clients.speech_client /\ rec.outcome.raised => rec.result = rec.outcome
        /\ clients.speech_client /\ ~rec.outcome.raised =>
                /\ ~rec.result.raised
                /\ rec.result.value = ExpectedTranscript(rec.outcome.value)

\* A padded first alternative came back trimmed although a blank one followed
C22_Witness ==
    /\ rec.state = "called"
    /\ clients.speech_client
    /\ ~rec.outcome.raised
    /\ rec.outcome.value = << << <<" ", "h", "i", " ">>, <<" ", " ">> >> >>
    /\ rec.result = Return(<<"h", "i">>)


----------------------------------------------------------------------------
(* A failed send and the cache                                             *)

\* The request's send_message raised: it was answered 500
SendFailed(r) == pc[r] = "done" /\ status[r] = 500

\* The step that answers 500 finds the chapter cached and leaves the cache as it is
SendFailureLeavesCache ==
    \A r \in Requests :
        (pc[r] = "sending" /\ status'[r] = 500) =>
            /\ Ready(chapter_num[r])
            /\ gemini_sessions' = gemini_sessions

\* A lookup made for a chapter after a send failed for it returns the cached
\* context, calls nothing and leaves the cache as it is
LookupAfterSendFailureHits ==
    \A r, q \in Requests :
        (SendFailed(r) /\ pc[q] = "lookup" /\ chapter_num[q] = chapter_num[r]
            /\ pc'[q] # "lookup") =>
            /\ pc'[q] = "send_message"
            /\ chat_session'[q] = gemini_sessions[chapter_num[q]]
            /\ calls'[q] = {}
            /\ gemini_sessions' = gemini_sessions

\* C23: when send_message raises for a cached chapter, the request is
\* answered 500 and gemini_sessions is left unchanged, and the next request
\* for that chapter gets the cached context without any upload.
C23_SendFailureKeepsCache == [][SendFailureLeavesCache /\ LookupAfterSendFailureHits]_vars

\* A send failed on the cached context and the next request for the chapter
\* is about to look it up
C23_Witness ==
    \E r, q \in Requests :
        /\ SendFailed(r)
        /\ pc[q] = "lookup"
        /\ chapter_num[q] = chapter_num[r]
        /\ Ready(chapter_num[r])
        /\ gemini_sessions[chapter_num[r]] = chat_session[r]


----------------------------------------------------------------------------
(* The chapter assistant and the other endpoints                           *)

\* A step of /api/greet, /api/speak or /api/chat leaves the chapter
\* assistant's state alone: gemini_sessions, the chapter sessions, everything
ApiLeavesAssistant == api' # api => UNCHANGED assistantvars

\* An /api/chat request that sends, sends into the start-up session
ChatUsesStartupSession ==
    \A r \in Requests :
        (api[r].endpoint = "none" /\ api'[r].endpoint = "chat"
            /\ api'[r].gemini # "not called") =>
            api'[r].conversation = Append(chat_history, api'[r].user_text)

\* A step of ask_chapter_assistant leaves the start-up session and the other
\* endpoints' requests alone
AssistantLeavesApi == assistantvars' # assistantvars => UNCHANGED <<chat_history, clients, api>>

\* The cached chapter ids are those of the ask_chapter_assistant requests
\* that built a context
CachedIdsFromAssistant ==
    DOMAIN gemini_sessions = {chapter_num[r] : r \in {q \in Requests : chat_session[q] = q}}

\* C24: /api/chat, /api/greet and /api/speak never write gemini_sessions and
\* send only into the start-up session, ask_chapter_assistant never sends
\* into the start-up session, and whatever the interleaving the cached
\* chapter ids are those of the ask_chapter_assistant requests that built one.
C24_PathsIsolated ==
    /\ [](CachedIdsFromAssistant)
    /\ [][ApiLeavesAssistant /\ ChatUsesStartupSession /\ AssistantLeavesApi]_vars

\* An /api/chat request got a reply and an ask_chapter_assistant request
\* built, cached and used a chapter context
C24_Witness ==
    \E r, q \in Requests :
        /\ api[r].endpoint = "chat" /\ api[r].gemini = "reply"
        /\ chat_history # << >>
        /\ pc[q] = "done" /\ status[q] = 200
        /\ DOMAIN gemini_sessions = {chapter_num[q]}
        /\ gemini_sessions[chapter_num[q]] = q


----------------------------------------------------------------------------
(* The order of the checks of /api/chat                                    *)

\* A non-empty upload whose codec the classifier finds
ValidAudio(r) ==
    /\ api[r].input.kind = "audio"
    /\ ~api[r].input.audio_empty
    /\ get_stt_encoding(api[r].input.mimetype, api[r].input.filename) # "ENCODING_UNSPECIFIED"

\* With the chat session missing, a blank text is still refused with 400 and a
\* valid upload is still recognised, once, before the 503
ValidatedBeforeChatCheck(r) ==
    ~clients.chat_session =>
        /\ api[r].input.kind = "json" /\ BlankText(api[r].input.text) =>
                api[r].response.status = 400 /\ api[r].calls = << >>
        /\ ValidAudio(r) /\ clients.speech_client =>
                /\ api[r].response.status = 503
                /\ api[r].calls = << <<"recognize", api[r].encoding>> >>

\* Recognition that returns None or raises does not end the request: a
\* placeholder goes to the chat provider and the 200 carries a null transcript
PlaceholderSent(r) ==
    (clients.chat_session /\ api[r].stt # "not called" /\ api[r].stt_transcript = NoneStr) =>
        /\ api[r].user_text = IF api[r].stt = "raised" THEN SttErrorText ELSE NoSpeechText
        /\ api[r].calls = << <<"recognize", api[r].encoding>>,
                             <<"send_message", api[r].user_text>> >>
        /\ api[r].gemini = "reply" =>
                /\ api[r].response.status = 200
                /\ api[r].response.kind = "reply"

\* C25: on /api/chat of routes.py, validation and speech recognition come
\* before the chat session test: with the chat session uninitialised a blank
\* text still gets 400 and a valid upload still gets one recognition call
\* before its 503; and when recognition returns None or raises a
\* non-connection error, a bracketed placeholder is sent to the chat provider
\* and the successful response carries a null stt_transcript.
C25_ChatCheckOrder ==
    \A r \in ServerChats : ValidatedBeforeChatCheck(r) /\ PlaceholderSent(r)

\* With the chat session missing, a blank text got 400 and a valid upload
\* got its recognition call and then 503
C25_Witness ==
    /\ ~clients.chat_session
    /\ \E r, q \in ServerChats :
        /\ api[r].input.kind = "json" /\ api[r].input.text = <<" ", " ">>
        /\ api[r].response.status = 400
        /\ ValidAudio(q)
        /\ api[q].calls = << <<"recognize", "WEBM_OPUS">> >>
        /\ api[q].response.status = 503

====
